---- MODULE Spec2Model ----
(***************************************************************************)
(* Model of the call-rate limiter of src/rate-limit.js.                    *)
(*                                                                         *)
(* createRateLimit(limit, perMiliseconds) closes over two mutable cells,   *)
(* requestCount and lastResetTime, and returns the async function          *)
(* rateLimit(promiseFn).  JavaScript runs each synchronous segment of an   *)
(* async function to completion, so one action of the model is one such    *)
(* segment:                                                                *)
(*   rateLimit(c)  lines 34-45 or 34-43,52-54: entry up to the first await *)
(*   afterWait(c)  lines 47-54: continuation run when the timer fires      *)
(*   settle(c, o)  line 54: continuation run when promiseFn()'s promise    *)
(*                 settles with outcome o                                  *)
(*   Tick          the clock read by Date.now() advances by one unit       *)
(* Time is discrete.  A synchronous segment takes no time, and a timer is  *)
(* served at the instant it falls due (timers are all of the same          *)
(* duration, so the host serves them in the order they were set).          *)
(***************************************************************************)
EXTENDS Integers, Sequences, FiniteSets, TLC

MaxCalls == 3      \* number of rateLimit calls issued in a behaviour
MaxTime == 4      \* horizon of the clock
MaxLimit == 2      \* largest limit a limiter is created with
MaxWindow == 2      \* largest perMiliseconds a limiter is created with

Calls == 1..MaxCalls
NoTime == 0 - 1
NoOutcome == [kind |-> "none", val |-> 0]

VARIABLES
    limit,           \* createRateLimit parameter
    perMiliseconds,  \* createRateLimit parameter
    requestCount,    \* closure cell, line 18
    lastResetTime,   \* closure cell, line 19
    now,             \* the value Date.now() returns
    timers,          \* pending setTimeout timers, in the order they were set
    pc,              \* per call: "idle", "waiting", "running", "done"
    invoked,         \* per call: how many times promiseFn has been invoked
    taskOutcome,     \* per call: how the promise returned by promiseFn settled
    result,          \* per call: how the promise returned by rateLimit settled
    callTime,        \* per call: Date.now() when rateLimit was called
    startTime,       \* per call: Date.now() when promiseFn was invoked
    doneTime,        \* per call: Date.now() when rateLimit's promise settled
    waited,          \* per call: number of waits (line 45) the call has begun
    resetAtCall,     \* per call: lastResetTime after the rollover check
    pendingAtCall    \* per call: earlier calls not yet returned at the call

vars == <<limit, perMiliseconds, requestCount, lastResetTime, now, timers, pc,
          invoked, taskOutcome, result, callTime, startTime, doneTime, waited,
          resetAtCall, pendingAtCall>>

config == <<limit, perMiliseconds>>
history == <<callTime, startTime, doneTime, waited, resetAtCall,
             pendingAtCall>>

\* The outcomes promiseFn of call c can produce: its promise resolves with a
\* value or rejects with an error; both are tagged with the call.
Outcomes(c) == {[kind |-> "resolve", val |-> c], [kind |-> "reject", val |-> c]}

\* createRateLimit, lines 17-20: the state right after construction.
Init ==
    /\ limit \in 1..MaxLimit
    /\ perMiliseconds \in 1..MaxWindow
    /\ requestCount = 0
    /\ now = 0
    /\ lastResetTime = now
    /\ timers = <<>>
    /\ pc = [c \in Calls |-> "idle"]
    /\ invoked = [c \in Calls |-> 0]
    /\ taskOutcome = [c \in Calls |-> NoOutcome]
    /\ result = [c \in Calls |-> NoOutcome]
    /\ callTime = [c \in Calls |-> NoTime]
    /\ startTime = [c \in Calls |-> NoTime]
    /\ doneTime = [c \in Calls |-> NoTime]
    /\ waited = [c \in Calls |-> 0]
    /\ resetAtCall = [c \in Calls |-> NoTime]
    /\ pendingAtCall = [c \in Calls |-> 0]

\* Calls are numbered in the order they are issued.
Issued == {c \in Calls : pc[c] # "idle"}
NextCall == Cardinality(Issued) + 1

\* Variant of WindowElapsed: the window must be strictly exceeded.
WindowElapsedStrict(currentTime) ==
    currentTime - lastResetTime > perMiliseconds

\* line 37: has the window elapsed at currentTime?
WindowElapsed(currentTime) == currentTime - lastResetTime >= perMiliseconds

\* Variants of Saturated: off by one, and strict.
SaturatedOff(count) == count >= limit - 1
SaturatedStrict(count) == count > limit

\* line 43: is the limiter saturated with count admissions?
Saturated(count) == count >= limit

\* Variant of WaitTime: the time remaining until the window ends.
WaitTimeRemaining(currentTime, windowStart) ==
    windowStart + perMiliseconds - currentTime

\* line 45: the argument of wait(), given the time of the check and the
\* start of the window.
WaitTime(currentTime, windowStart) == perMiliseconds

\* Variant of wait whose promise is never resolved.
waitLost(c, time) == timers

\* wait, lines 64-70: set a timer that resumes call c after `time`.
wait(c, time) == Append(timers, [call |-> c, due |-> now + time])

\* lines 52-54 up to the call of promiseFn: count the admission and invoke
\* the task of call c.
Admit(c, count) ==
    /\ requestCount' = count + 1
    /\ invoked' = [invoked EXCEPT ![c] = @ + 1]
    /\ startTime' = [startTime EXCEPT ![c] = now]
    /\ pc' = [pc EXCEPT ![c] = "running"]

\* rateLimit, lines 32-54, from the call to its first await.
rateLimit(c) ==
    /\ pc[c] = "idle"
    /\ c = NextCall
    /\ now + perMiliseconds <= MaxTime
    /\ LET currentTime == now
           rolled == WindowElapsed(currentTime)
           count == IF rolled THEN 0 ELSE requestCount
           windowStart == IF rolled THEN currentTime ELSE lastResetTime
       IN  /\ callTime' = [callTime EXCEPT ![c] = currentTime]
           /\ pendingAtCall' = [pendingAtCall EXCEPT
                   ![c] = Cardinality({d \in Issued : pc[d] # "done"})]
           /\ resetAtCall' = [resetAtCall EXCEPT ![c] = windowStart]
           /\ lastResetTime' = windowStart
           /\ IF Saturated(count)
              THEN /\ requestCount' = count
                   /\ timers' = wait(c, WaitTime(currentTime, windowStart))
                   /\ pc' = [pc EXCEPT ![c] = "waiting"]
                   /\ waited' = [waited EXCEPT ![c] = @ + 1]
                   /\ UNCHANGED <<invoked, startTime>>
              ELSE /\ Admit(c, count)
                   /\ UNCHANGED <<timers, waited>>
    /\ UNCHANGED <<config, now, taskOutcome, result, doneTime>>

\* Variant of afterWait that invokes the task, and invokes it again (a retry).
afterWaitRetry(c) ==
    /\ timers # <<>>
    /\ Head(timers).call = c
    /\ Head(timers).due <= now
    /\ pc[c] = "waiting"
    /\ timers' = Tail(timers)
    /\ lastResetTime' = now
    /\ requestCount' = 1
    /\ invoked' = [invoked EXCEPT ![c] = @ + 2]
    /\ startTime' = [startTime EXCEPT ![c] = now]
    /\ pc' = [pc EXCEPT ![c] = "running"]
    /\ UNCHANGED <<config, now, taskOutcome, result, callTime, doneTime,
                   waited, resetAtCall, pendingAtCall>>

\* Variant of afterWait that checks the window again after the wait and
\* waits once more when the limiter is still saturated.
afterWaitRecheck(c) ==
    /\ timers # <<>>
    /\ Head(timers).call = c
    /\ Head(timers).due <= now
    /\ pc[c] = "waiting"
    /\ LET rolled == WindowElapsed(now)
           count == IF rolled THEN 0 ELSE requestCount
       IN  /\ lastResetTime' = IF rolled THEN now ELSE lastResetTime
           /\ IF Saturated(count)
              THEN /\ requestCount' = count
                   /\ timers' = Append(Tail(timers),
                                       [call |-> c, due |-> now + perMiliseconds])
                   /\ waited' = [waited EXCEPT ![c] = @ + 1]
                   /\ UNCHANGED <<invoked, startTime, pc>>
              ELSE /\ timers' = Tail(timers)
                   /\ Admit(c, count)
                   /\ UNCHANGED waited
    /\ UNCHANGED <<config, now, taskOutcome, result, callTime, doneTime,
                   resetAtCall, pendingAtCall>>

\* Variant of afterWait that restarts the window at the time read on entry
\* (currentTime, line 34) instead of reading the clock again.
afterWaitStale(c) ==
    /\ timers # <<>>
    /\ Head(timers).call = c
    /\ Head(timers).due <= now
    /\ pc[c] = "waiting"
    /\ timers' = Tail(timers)
    /\ lastResetTime' = callTime[c]
    /\ Admit(c, 0)
    /\ UNCHANGED <<config, now, taskOutcome, result, callTime, doneTime,
                   waited, resetAtCall, pendingAtCall>>

\* Variant of afterWait in which timers that are due are served in any order.
afterWaitAny(c) ==
    /\ pc[c] = "waiting"
    /\ \E i \in 1..Len(timers) :
          /\ timers[i].call = c
          /\ timers[i].due <= now
          /\ timers' = SubSeq(timers, 1, i - 1)
                          \o SubSeq(timers, i + 1, Len(timers))
    /\ lastResetTime' = now
    /\ Admit(c, 0)
    /\ UNCHANGED <<config, now, taskOutcome, result, callTime, doneTime,
                   waited, resetAtCall, pendingAtCall>>

\* rateLimit, lines 47-54: the continuation after `await wait(...)`, run when
\* the timer of call c is served.
afterWait(c) ==
    /\ timers # <<>>
    /\ Head(timers).call = c
    /\ Head(timers).due <= now
    /\ pc[c] = "waiting"
    /\ timers' = Tail(timers)
    /\ lastResetTime' = now
    /\ Admit(c, 0)
    /\ UNCHANGED <<config, now, taskOutcome, result, callTime, doneTime,
                   waited, resetAtCall, pendingAtCall>>

\* Variant of ReturnAwait that swallows a rejection.
ReturnAwaitSwallow(o) == [kind |-> "resolve", val |-> o.val]

\* line 54, `return await promiseFn()`: what rateLimit's promise settles with
\* when promiseFn's promise settles with outcome o.
ReturnAwait(o) ==
    IF o.kind = "resolve"
    THEN [kind |-> "resolve", val |-> o.val]
    ELSE [kind |-> "reject", val |-> o.val]

\* Variant of settle that gives the slot back when the task fails.
settleRefund(c, o) ==
    /\ pc[c] = "running"
    /\ taskOutcome' = [taskOutcome EXCEPT ![c] = o]
    /\ result' = [result EXCEPT ![c] = ReturnAwait(o)]
    /\ doneTime' = [doneTime EXCEPT ![c] = now]
    /\ pc' = [pc EXCEPT ![c] = "done"]
    /\ requestCount' = IF o.kind = "reject" THEN requestCount - 1
                       ELSE requestCount
    /\ UNCHANGED <<config, lastResetTime, now, timers, invoked,
                   callTime, startTime, waited, resetAtCall, pendingAtCall>>

\* line 54: the continuation run when the task of call c settles with o.
settle(c, o) ==
    /\ pc[c] = "running"
    /\ taskOutcome' = [taskOutcome EXCEPT ![c] = o]
    /\ result' = [result EXCEPT ![c] = ReturnAwait(o)]
    /\ doneTime' = [doneTime EXCEPT ![c] = now]
    /\ pc' = [pc EXCEPT ![c] = "done"]
    /\ UNCHANGED <<config, requestCount, lastResetTime, now, timers, invoked,
                   callTime, startTime, waited, resetAtCall, pendingAtCall>>

\* Variant of Tick with a background reset: the window is rolled over as
\* soon as the clock reaches its end.
TickReset ==
    /\ now < MaxTime
    /\ \A i \in 1..Len(timers) : timers[i].due > now
    /\ now' = now + 1
    /\ IF now + 1 - lastResetTime >= perMiliseconds
       THEN requestCount' = 0 /\ lastResetTime' = now + 1
       ELSE UNCHANGED <<requestCount, lastResetTime>>
    /\ UNCHANGED <<config, timers, pc, invoked, taskOutcome, result, history>>

\* The clock advances; a timer that is due is served first.
Tick ==
    /\ now < MaxTime
    /\ \A i \in 1..Len(timers) : timers[i].due > now
    /\ now' = now + 1
    /\ UNCHANGED <<config, requestCount, lastResetTime, timers, pc, invoked,
                   taskOutcome, result, history>>

Next ==
    \/ \E c \in Calls : rateLimit(c)
    \/ \E c \in Calls : afterWait(c)
    \/ \E c \in Calls : \E o \in Outcomes(c) : settle(c, o)
    \/ Tick

Spec == Init /\ [][Next]_vars

\* The limiter's scheduling: the clock keeps advancing and a timer that is
\* due is served.
LiveSpec ==
    /\ Spec
    /\ WF_vars(Tick)
    /\ WF_vars(\E c \in Calls : afterWait(c))

Started(c) == startTime[c] # NoTime
AllDone == \A c \in Issued : pc[c] = "done"
CeilDiv(a, b) == (a + b - 1) \div b

\* All calls so far were issued one after another, each at the instant the
\* previous one returned, and every task completed at once.
Sequential ==
    /\ Issued # {}
    /\ \A c \in Issued :
          /\ pendingAtCall[c] = 0
          /\ c > 1 => callTime[c] = doneTime[c - 1]
          /\ pc[c] = "done" => doneTime[c] = startTime[c]

\* All calls so far were issued at the same instant.
Burst == Issued # {} /\ \A c \in Issued : callTime[c] = callTime[1]

\* C1: in any time interval of length perMiliseconds at most `limit` tasks
\* are started.
C1_AtMostLimitPerWindow ==
    \A t \in 0..MaxTime :
        Cardinality({c \in Calls : /\ Started(c)
                                   /\ startTime[c] >= t
                                   /\ startTime[c] < t + perMiliseconds})
            <= limit

\* C2: every call that is suspended by the limiter eventually invokes its
\* task (a call that is not suspended invokes it in the step of the call).
C2_EventuallyInvoked ==
    \A c \in Calls : (pc[c] = "waiting") ~> (invoked[c] >= 1)

\* C2 witness: a suspended call has invoked its task while another call was
\* still suspended.
C2_Witness ==
    \E c, d \in Calls :
        /\ c # d
        /\ waited[c] = 1 /\ invoked[c] = 1
        /\ pc[d] = "waiting"

\* C3: rateLimit's promise settles exactly as the promise of its own task
\* did, and is not settled before the task's promise is.
C3_OutcomePassthrough ==
    \A c \in Calls :
        IF pc[c] = "done"
        THEN /\ taskOutcome[c] \in Outcomes(c)
             /\ result[c] = taskOutcome[c]
        ELSE result[c] = NoOutcome

\* C3 witness: two calls were in flight together; one task failed, the other
\* succeeded.
C3_Witness ==
    \E c, d \in Calls :
        /\ pc[c] = "done" /\ pc[d] = "done"
        /\ result[c].kind = "reject" /\ result[d].kind = "resolve"
        /\ startTime[c] <= doneTime[d] /\ startTime[d] <= doneTime[c]

C5_SettleKeepsCounters ==
    \A c \in Calls :
        pc[c] = "running" /\ pc'[c] = "done" =>
            requestCount' = requestCount /\ lastResetTime' = lastResetTime

C5_NextCallDelayed ==
    LET c == limit + 1
    IN  (c \in Issued /\ \A d \in 1..c : callTime[d] < perMiliseconds) =>
            /\ waited[c] = 1
            /\ Started(c) => startTime[c] = callTime[c] + perMiliseconds

C5_FailureConsumesSlot ==
    [][C5_SettleKeepsCounters]_vars /\ []C5_NextCallDelayed

\* C5 witness: the first `limit` tasks have all failed before call limit+1
\* was issued in the same window, and call limit+1 has started its task.
C5_Witness ==
    LET c == limit + 1
    IN  /\ c \in Issued
        /\ Started(c)
        /\ \A d \in 1..limit : /\ result[d].kind = "reject"
                               /\ doneTime[d] <= callTime[c]
        /\ callTime[c] < perMiliseconds

\* C6: a call that found the limiter saturated starts its task exactly
\* perMiliseconds after the call: it is still suspended until then and is
\* not suspended after.
C6_FullWindowWait ==
    \A c \in Calls :
        waited[c] >= 1 =>
            IF pc[c] = "waiting"
            THEN now <= callTime[c] + perMiliseconds
            ELSE startTime[c] = callTime[c] + perMiliseconds

\* C6 witness: a call found the limiter saturated part-way into the window,
\* another call was issued during its wait, and it started a full
\* perMiliseconds after its own call.
C6_Witness ==
    \E c, d \in Calls :
        /\ waited[c] = 1
        /\ Started(c)
        /\ resetAtCall[c] < callTime[c]
        /\ callTime[c] < callTime[d] /\ callTime[d] < startTime[c]

\* C7: no call is suspended for more than perMiliseconds in total, and no
\* call is suspended twice.
C7_AtMostOneWindow ==
    \A c \in Issued :
        /\ waited[c] <= 1
        /\ IF Started(c)
           THEN startTime[c] - callTime[c] <= perMiliseconds
           ELSE now - callTime[c] <= perMiliseconds

\* C7 witness: two calls were suspended at the same instant and both have
\* started their tasks.
C7_Witness ==
    \E c, d \in Calls :
        /\ c # d
        /\ waited[c] = 1 /\ waited[d] = 1
        /\ callTime[c] = callTime[d]
        /\ Started(c) /\ Started(d)

\* C8: the first `limit` calls on a limiter are never suspended: each starts
\* its task in the step of the call.
C8_NoWaitUpToLimit ==
    \A c \in Issued :
        c <= limit => waited[c] = 0 /\ startTime[c] = callTime[c]

\* C8 witness: limit >= 2 and `limit` calls were fired together.
C8_Witness ==
    /\ limit >= 2
    /\ Burst
    /\ \A c \in 1..limit : c \in Issued /\ startTime[c] = callTime[1]

\* C9: after N sequential calls with instant tasks have all returned,
\* exactly ceil(N/limit) - 1 of them were suspended, the elapsed time is
\* (ceil(N/limit) - 1) * perMiliseconds, and every task ran once.
C9_SequentialWaits ==
    (Sequential /\ AllDone) =>
        LET N == Cardinality(Issued)
            waits == CeilDiv(N, limit) - 1
        IN  /\ Cardinality({c \in Issued : waited[c] = 1}) = waits
            /\ \A c \in Issued : waited[c] <= 1 /\ invoked[c] = 1
            /\ doneTime[N] - callTime[1] = waits * perMiliseconds

\* C9 witness: three sequential calls on a limiter of limit 1 have returned
\* (two waits).
C9_Witness ==
    /\ Sequential /\ AllDone
    /\ limit = 1
    /\ Cardinality(Issued) = 3

\* C10: when all calls are fired at the same instant, the first `limit`
\* start at once and calls limit+1 .. 2*limit start exactly perMiliseconds
\* later; past that instant none of them is still suspended.
C10_BurstStarts ==
    Burst =>
        \A c \in Issued :
            IF c <= limit
            THEN startTime[c] = callTime[1]
            ELSE c <= 2 * limit =>
                    IF pc[c] = "waiting"
                    THEN now <= callTime[1] + perMiliseconds
                    ELSE startTime[c] = callTime[1] + perMiliseconds

\* C10 witness: more than `limit` calls were fired together after the
\* limiter had been idle for a while, and all have returned.
C10_Witness ==
    /\ Burst
    /\ Cardinality(Issued) > limit
    /\ callTime[1] > 0
    /\ AllDone

\* C12: in every reachable state 0 <= requestCount <= limit.
C12_CountWithinLimit == requestCount >= 0 /\ requestCount <= limit

\* C12 witness: two suspended calls have woken up one after the other and the
\* count stands at the limit.
C12_Witness ==
    /\ requestCount = limit
    /\ \E c, d \in Calls :
          /\ c # d
          /\ waited[c] = 1 /\ Started(c)
          /\ waited[d] = 1 /\ Started(d)

\* C13: requestCount equals the number of tasks started at or after
\* lastResetTime.
C13_CountIsAdmissionsInWindow ==
    requestCount =
        Cardinality({c \in Calls : Started(c) /\ startTime[c] >= lastResetTime})

\* C14: whenever lastResetTime changes, at least perMiliseconds has passed
\* since the value it held before.
C14_ResetOnlyWhenElapsed ==
    [][lastResetTime' # lastResetTime =>
           now - lastResetTime >= perMiliseconds]_vars

\* C15 as stated: calls start their tasks in the order they were issued.
C15_StartInIssueOrder ==
    \A a, b \in Issued :
        (a < b /\ Started(b)) => (Started(a) /\ startTime[a] <= startTime[b])

\* C15 as amended: calls start their tasks in the order they were issued,
\* except that a call suspended by saturation may be overtaken by a later
\* call that is not suspended.
C15_StartInIssueOrderUnlessOvertaken ==
    \A a, b \in Issued :
        (a < b /\ Started(b) /\ ~(waited[a] >= 1 /\ waited[b] = 0)) =>
            (Started(a) /\ startTime[a] <= startTime[b])

\* C15 witness: two calls were suspended at the same instant and the later
\* one has started its task.
C15_Witness ==
    \E a, b \in Issued :
        /\ a < b
        /\ waited[a] = 1 /\ waited[b] = 1
        /\ callTime[a] = callTime[b]
        /\ Started(b)
        /\ pc[a] = "done"

\* C16: in a burst the delays compound: a call queued behind more than
\* `limit` other suspended-or-admitted excess calls (call number above
\* 2*limit) starts its task more than perMiliseconds after it was issued.
C16_DelaysCompound ==
    Burst =>
        \A c \in Issued :
            (c > 2 * limit /\ Started(c)) =>
                startTime[c] - callTime[c] > perMiliseconds

\* C17: a call issued when at least perMiliseconds has elapsed since
\* lastResetTime starts its task in the step of the call and leaves
\* requestCount = 1 and lastResetTime = the time of the call.
C17_CallAfterElapsedWindow ==
    [][\A c \in Calls :
          (pc[c] = "idle" /\ pc'[c] # "idle"
             /\ now - lastResetTime >= perMiliseconds) =>
              /\ pc'[c] = "running"
              /\ invoked'[c] = 1
              /\ startTime'[c] = now
              /\ waited'[c] = 0
              /\ requestCount' = 1
              /\ lastResetTime' = now]_vars

\* C17 witness: a call found the window elapsed while the count stood at the
\* limit and another call was suspended; it was admitted at once.
C17_Witness ==
    \E c, d \in Calls :
        /\ pc[d] = "waiting"
        /\ callTime[d] < callTime[c]
        /\ Started(c) /\ waited[c] = 0
        /\ resetAtCall[c] = callTime[c]
        /\ callTime[c] - resetAtCall[d] >= perMiliseconds
        /\ requestCount = 1
        /\ lastResetTime = callTime[c]

\* C18: requestCount changes only in a step that admits a call: by +1 when
\* it is below the limit, and otherwise to 1 through a reset, which is either
\* the rollover of a call that finds the window elapsed or the wake-up of a
\* suspended call; a step that admits nothing leaves it unchanged.
C18_Admits(c) == invoked'[c] = invoked[c] + 1

C18_CountStep ==
    \/ /\ requestCount' = requestCount
       /\ \A c \in Calls : ~C18_Admits(c)
    \/ \E c \in Calls :
          /\ C18_Admits(c)
          /\ pc[c] = "idle"
          /\ now - lastResetTime < perMiliseconds
          /\ requestCount < limit
          /\ requestCount' = requestCount + 1
    \/ \E c \in Calls :
          /\ C18_Admits(c)
          /\ \/ pc[c] = "waiting"
             \/ pc[c] = "idle" /\ now - lastResetTime >= perMiliseconds
          /\ requestCount' = 1
          /\ lastResetTime' = now

C18_SaturatedUntilReset == [][C18_CountStep]_vars

\* C18 witness: a limiter of limit 2 was saturated by calls 1 and 2, and
\* call 3, suspended, reset it on waking: the count is 1 in a new window.
C18_Witness ==
    /\ limit = 2
    /\ requestCount = 1
    /\ Started(3) /\ waited[3] = 1
    /\ lastResetTime = startTime[3]
    /\ lastResetTime > 0

\* C19: lastResetTime never decreases, never lies in the future, and a new
\* value is the current time.
C19_ResetStep ==
    /\ lastResetTime' >= lastResetTime
    /\ lastResetTime' # lastResetTime => lastResetTime' = now

C19_WindowStartMonotone ==
    [][C19_ResetStep]_vars /\ [](lastResetTime <= now)

\* C19 witness: a call rolled the window over while another was suspended,
\* and the suspended call then woke up and moved lastResetTime again.
C19_Witness ==
    \E c, d \in Calls :
        /\ waited[c] = 1 /\ Started(c)
        /\ waited[d] = 0
        /\ resetAtCall[d] = callTime[d]
        /\ callTime[c] < callTime[d]
        /\ callTime[d] < startTime[c]
        /\ lastResetTime = startTime[c]

\* C20: a step in which the clock advances changes neither requestCount nor
\* lastResetTime; they change only in a step in which some call enters
\* rateLimit or wakes up from its wait.
C20_LazyStep ==
    /\ now' # now => UNCHANGED <<requestCount, lastResetTime>>
    /\ (requestCount' # requestCount \/ lastResetTime' # lastResetTime) =>
          \E c \in Calls : pc[c] \in {"idle", "waiting"} /\ pc'[c] # pc[c]

C20_LazyReset == [][C20_LazyStep]_vars

\* C20 witness: the window has expired and no call has checked it yet: the
\* count still stands at the limit and lastResetTime is the old one.
C20_Witness ==
    /\ now - lastResetTime > perMiliseconds
    /\ requestCount = limit
    /\ \A c \in Calls : pc[c] # "waiting"
    /\ Issued # {}

TypeOK ==
    /\ limit \in 1..MaxLimit
    /\ perMiliseconds \in 1..MaxWindow
    /\ requestCount \in Nat
    /\ lastResetTime \in 0..MaxTime
    /\ now \in 0..MaxTime
    /\ \A c \in Calls : pc[c] \in {"idle", "waiting", "running", "done"}
====
